---- MODULE Spec2Model ----
(***************************************************************************)
(* Model of py/setup.py of thermostat-eem: the packaging script that       *)
(* builds one package descriptor and hands it to setuptools.setup().       *)
(*                                                                         *)
(* One run of the script is the sequence                                   *)
(*     start --FindPackages--> args --CallSetup--> in_setup                *)
(*     in_setup --SetupReturns--> done      (the command of argv has run)  *)
(*     in_setup --ToolRaises(e)--> raising  (the command ran in part)      *)
(*     raising --Propagate--> failed                                       *)
(* and NextRun starts the script again, with the same command, on the tree *)
(* the run before left behind.                                             *)
(* Strings are the script's own literals; they are taken apart with        *)
(* Len and SubSeq, character by character.                                 *)
(***************************************************************************)
EXTENDS Integers, Sequences, FiniteSets, TLC

VARIABLES
    pc,          \* position of the running script
    run,         \* number of the current run of the packaging step
    argv,        \* the command the script is run with
    order,       \* project tree: for every directory, its sub-directories as
                 \* os.walk lists them
    fs,          \* the directories that hold an __init__.py
    packages,    \* Bound(value find_packages() returned in this run)
    descriptor,  \* Bound(keyword arguments handed to setup()) once it is called
    calls,       \* invocations of setup() in this run
    raised,      \* error the packaging tool raised in this run
    outcome,     \* how the run ended
    passed       \* descriptors handed to setup(), one per run so far

vars == <<pc, run, argv, order, fs, packages, descriptor, calls, raised, outcome, passed>>

(***************************************************************************)
(* Bounds of the model.                                                    *)
(***************************************************************************)
MaxRuns == 2

None == "None"

\* a local that is not bound yet, and one bound to the value v
Unbound == << >>
Bound(v) == << v >>
Value(x) == x[1]

(***************************************************************************)
(* String helpers.                                                         *)
(***************************************************************************)
CharAt(s, i) == SubSeq(s, i, i)

RECURSIVE FindFrom(_, _, _)
FindFrom(s, c, i) ==
    IF i > Len(s) THEN 0
    ELSE IF CharAt(s, i) = c THEN i
    ELSE FindFrom(s, c, i + 1)

\* s.find(c): index of the first occurrence of the character c, 0 if none
Find(s, c) == FindFrom(s, c, 1)

RECURSIVE RFindFrom(_, _, _)
RFindFrom(s, c, i) ==
    IF i < 1 THEN 0
    ELSE IF CharAt(s, i) = c THEN i
    ELSE RFindFrom(s, c, i - 1)

\* s.rfind(c): index of the last occurrence of the character c, 0 if none
RFind(s, c) == RFindFrom(s, c, Len(s))

StartsWith(s, p) == Len(s) >= Len(p) /\ SubSeq(s, 1, Len(p)) = p

\* the part of s after its first n characters
Drop(s, n) == SubSeq(s, n + 1, Len(s))

(***************************************************************************)
(* How a requirement string is read: "name@link" is a direct reference,    *)
(* and a version-control link is "vcs+url@revision#subdirectory=path".     *)
(* A string with no '@' names a package to look up in the package index.   *)
(* The properties about install_requires are stated with this reading.    *)
(***************************************************************************)
SubdirectoryKey == "subdirectory="

ParseSpecifier(s) ==
    LET at == Find(s, "@")
        link == Drop(s, at)
        plus == Find(link, "+")
        location == Drop(link, plus)
        hash == Find(location, "#")
        urlrev == IF hash = 0 THEN location ELSE SubSeq(location, 1, hash - 1)
        fragment == IF hash = 0 THEN "" ELSE Drop(location, hash)
        pin == RFind(urlrev, "@")
    IN  IF at = 0
        THEN [ direct |-> FALSE, name |-> s, vcs |-> "", url |-> "",
               rev |-> "", subdirectory |-> "" ]
        ELSE [ direct |-> TRUE,
               name |-> SubSeq(s, 1, at - 1),
               vcs |-> IF plus = 0 THEN "" ELSE SubSeq(link, 1, plus - 1),
               url |-> IF pin = 0 THEN urlrev ELSE SubSeq(urlrev, 1, pin - 1),
               rev |-> IF pin = 0 THEN "" ELSE Drop(urlrev, pin),
               subdirectory |-> IF StartsWith(fragment, SubdirectoryKey)
                                THEN Drop(fragment, Len(SubdirectoryKey))
                                ELSE "" ]

\* the string a parsed direct reference stands for
FormatSpecifier(q) ==
    q.name \o "@" \o q.vcs \o "+" \o q.url \o "@" \o q.rev
        \o "#" \o SubdirectoryKey \o q.subdirectory

HexDigits == { "0", "1", "2", "3", "4", "5", "6", "7", "8", "9",
               "a", "b", "c", "d", "e", "f" }

\* s can be an abbreviated commit hash
IsHex(s) == s # "" /\ \A i \in 1..Len(s) : CharAt(s, i) \in HexDigits

(***************************************************************************)
(* The literals of the setup() call.                                       *)
(***************************************************************************)
name == "thermostat"
\* a version that carries a build stamp
version_stamped == IF run = 1 THEN "0.1.0" ELSE "0.1.0.post1"

version == "0.1.0"
description == "Thermostat Utilities"
author == "QUARTIQ GmbH"
license == "MIT"
\* the two requirements in the other order
install_requires_swapped ==
    << "miniconf-mqtt@git+https://github.com/quartiq/miniconf@miniconf-v0.10.1#subdirectory=py/miniconf-mqtt",
       "stabilizer@git+https://github.com/quartiq/stabilizer@becc1c72#subdirectory=py" >>

\* stabilizer named without its source location
install_requires_index ==
    << "stabilizer",
       "miniconf-mqtt@git+https://github.com/quartiq/miniconf@miniconf-v0.10.1#subdirectory=py/miniconf-mqtt" >>

install_requires ==
    << "stabilizer@git+https://github.com/quartiq/stabilizer@becc1c72#subdirectory=py",
       "miniconf-mqtt@git+https://github.com/quartiq/miniconf@miniconf-v0.10.1#subdirectory=py/miniconf-mqtt" >>

(***************************************************************************)
(* The project tree find_packages() walks.  A directory is the tuple of    *)
(* the names on its path from the project root, << >> being the root.      *)
(* order[p] lists the sub-directories of p in the order the file system    *)
(* returns them, which is any order; fs says which directories hold an     *)
(* __init__.py.                                                            *)
(***************************************************************************)
EggInfo == "thermostat.egg-info"

Root == << >>

\* the directories of the project before the first run
Dirs ==
    { << "thermostat" >>, << EggInfo >>, << "tests" >>,
      << "thermostat", "cli" >>, << "thermostat", "__pycache__" >> }

Range(q) == { q[i] : i \in DOMAIN q }

\* the names of the sub-directories of p among the directories T
Kids(T, p) ==
    { d[Len(d)] : d \in { x \in T : /\ Len(x) = Len(p) + 1
                                    /\ SubSeq(x, 1, Len(p)) = p } }

\* the sequences q becomes when x is put in at some place
Insert(q, x) ==
    { SubSeq(q, 1, k) \o << x >> \o SubSeq(q, k + 1, Len(q)) : k \in 0..Len(q) }

\* the listings of a directory with sub-directories kids in which the
\* entries of its listing so far, old, keep their order: the new entries
\* come at any place
RECURSIVE Listings(_, _)
Listings(old, kids) ==
    IF kids \subseteq Range(old) THEN { old }
    ELSE LET x == CHOOSE k \in kids \ Range(old) : TRUE
         IN  UNION { Insert(q, x) : q \in Listings(old, kids \ { x }) }

\* the directory above p
Parent(p) == SubSeq(p, 1, Len(p) - 1)

\* the trees the tree o can become when the directories new, which it lacks,
\* are created: a directory that gets no sub-directory keeps its listing, one
\* that gets some lists them anywhere among those it has; ds are the
\* directories still to list
RECURSIVE Relist(_, _, _)
Relist(o, new, ds) ==
    IF ds = { } THEN { [ d \in { } |-> << >> ] }
    ELSE LET d == CHOOSE x \in ds : TRUE
             old == IF d \in DOMAIN o THEN o[d] ELSE << >>
         IN  { (d :> q) @@ f : q \in Listings(old, Range(old) \cup Kids(new, d)),
                               f \in Relist(o, new, ds \ { d }) }

\* os.listdir restricted to sub-directories, in listing order
listdir(p) == order[p]

\* every directory passes for a package
looks_like_package_any(p) == TRUE

\* PackageFinder._looks_like_package: the directory holds an __init__.py
looks_like_package(p) == p \in fs

\* rel_path.replace(os.path.sep, '.')
RECURSIVE PackageName(_)
PackageName(p) ==
    IF Len(p) = 1 THEN p[1]
    ELSE PackageName(SubSeq(p, 1, Len(p) - 1)) \o "." \o p[Len(p)]

RECURSIVE Flatten(_)
Flatten(qs) == IF qs = << >> THEN << >> ELSE Head(qs) \o Flatten(Tail(qs))

\* s.endswith(p)
EndsWith(s, p) == Len(s) >= Len(p) /\ SubSeq(s, Len(s) - Len(p) + 1, Len(s)) = p

\* fnmatch.fnmatchcase for the patterns find_packages() is given: a literal
\* name, or a '*' followed by a literal, which matches every name that ends
\* in the literal
fnmatchcase(package, pat) ==
    IF StartsWith(pat, "*") THEN EndsWith(package, Drop(pat, 1))
    ELSE package = pat

\* PackageFinder.ALWAYS_EXCLUDE
ALWAYS_EXCLUDE == << "ez_setup", "*__pycache__" >>

\* _build_filter(*ALWAYS_EXCLUDE, *exclude) with exclude=()
exclude(package) ==
    \E i \in DOMAIN ALWAYS_EXCLUDE : fnmatchcase(package, ALWAYS_EXCLUDE[i])

\* _build_filter(*include) with include=('*',)
include(package) == fnmatchcase(package, "*")

\* a walk that stops at the top level
Walk_flat(root) ==
    LET all_dirs == listdir(root)
        dirs == SelectSeq(all_dirs,
                    LAMBDA d : ~(Find(d, ".") # 0 \/ ~looks_like_package(root \o << d >>)))
        found == [ i \in 1..Len(dirs) |-> PackageName(root \o << dirs[i] >>) ]
    IN  SelectSeq(found, LAMBDA package : include(package) /\ ~exclude(package))

\* PackageFinder._find_iter: os.walk from root, top down; a directory whose
\* name has a '.' or that holds no __init__.py is skipped with all below it;
\* a package the exclude filter matches is not listed, but the walk goes on
\* below it
RECURSIVE Walk(_)
Walk(root) ==
    LET all_dirs == listdir(root)
        dirs == SelectSeq(all_dirs,
                    LAMBDA d : ~(Find(d, ".") # 0 \/ ~looks_like_package(root \o << d >>)))
        found == [ i \in 1..Len(dirs) |-> PackageName(root \o << dirs[i] >>) ]
    IN  SelectSeq(found, LAMBDA package : include(package) /\ ~exclude(package))
        \o Flatten([ i \in 1..Len(dirs) |-> Walk(root \o << dirs[i] >>) ])

\* find_packages() with no arguments: where='.', exclude=(), include=('*',);
\* ALWAYS_EXCLUDE is excluded whatever the arguments
find_packages == Walk(<< >>)

(***************************************************************************)
(* What setup() does with the descriptor: it runs the command of argv.     *)
(* build_py copies every package of the packages field, with its           *)
(* __init__.py, under the directory --build-lib names (build/lib unless    *)
(* given), package by package; check writes nothing.  The command can     *)
(* fail at any step and leaves behind what it wrote until then.            *)
(***************************************************************************)
DefaultBuildLib == << "build", "lib" >>

Argvs ==
    { [ command |-> "check", build_lib |-> DefaultBuildLib ],
      [ command |-> "build_py", build_lib |-> DefaultBuildLib ],
      [ command |-> "build_py", build_lib |-> << "thermostat", "cli" >> ] }

\* package.split('.')
RECURSIVE Split(_)
Split(s) ==
    LET dot == Find(s, ".")
    IN  IF dot = 0 THEN << s >>
        ELSE << SubSeq(s, 1, dot - 1) >> \o Split(Drop(s, dot))

\* the directories made, and the package directories written, by the
\* first n of the steps
Made(steps, n) == { steps[i].dir : i \in { j \in 1..n : steps[j].op = "mkdir" } }
Written(steps, n) == { steps[i].dir : i \in { j \in 1..n : steps[j].op = "copy" } }

\* build_module for the __init__.py of the package directory p: mkpath(p)
\* makes every directory on the path to p that is not there, of those there
\* are, have, outermost first; then the __init__.py is copied into p
StepsFor(p, have) ==
    LET path == [ k \in 1..Len(p) |-> SubSeq(p, 1, k) ]
        missing == SelectSeq(path, LAMBDA d : d \notin have)
    IN  [ k \in 1..Len(missing) |-> [ op |-> "mkdir", dir |-> missing[k] ] ]
            \o << [ op |-> "copy", dir |-> p ] >>

\* build_packages: the packages pks one after the other, each on the tree
\* the packages before it left
RECURSIVE StepsFrom(_, _)
StepsFrom(pks, have) ==
    IF pks = << >> THEN << >>
    ELSE LET first == StepsFor(argv.build_lib \o Split(Head(pks)), have)
         IN  first \o StepsFrom(Tail(pks), have \cup Made(first, Len(first)))

\* the file-system steps of the command for the packages pks, in order:
\* build_py takes the packages in the order of the packages field
Steps(pks) ==
    IF argv.command = "build_py" THEN StepsFrom(pks, DOMAIN order)
    ELSE << >>

\* the keyword arguments of the setup() call
Descriptor(pk) ==
    [ name |-> name,
      packages |-> pk,
      version |-> version,
      description |-> description,
      author |-> author,
      license |-> license,
      install_requires |-> install_requires ]

(***************************************************************************)
(* Errors the packaging tool can raise out of setup().                     *)
(***************************************************************************)
ToolErrors == { "malformed metadata", "unreachable dependency source", "version conflict" }

\* the error of a command that cannot make a directory or copy a file
FileError == "could not create"

Errors == ToolErrors \cup { FileError }

\* the numbers of steps that can have taken effect when setup() raises e.
\* A file error comes at a step of the command that fails: the steps before
\* it have taken effect, and so may the failing step itself, for a copy
\* creates the __init__.py it then fails to write; a command without steps
\* raises no file error.  The other errors come before the command starts
\* or after it has finished.
StepsBefore(e, steps) ==
    IF e = FileError
    THEN IF steps = << >> THEN { } ELSE 0..Len(steps)
    ELSE { 0, Len(steps) }

\* the command has taken the first n of its steps
Ran(steps, n) ==
    LET new == Made(steps, n) \ DOMAIN order
        above == { Parent(d) : d \in new } \ new
    IN  /\ IF new = { } THEN order' = order
           ELSE order' \in { g @@ order : g \in Relist(order, new, new \cup above) }
        /\ fs' = fs \cup Written(steps, n)

(***************************************************************************)
(* The state machine.                                                      *)
(***************************************************************************)
Init ==
    /\ pc = "start"
    /\ run = 1
    /\ argv \in Argvs
    /\ order \in Relist([ d \in { } |-> << >> ], Dirs, Dirs \cup { Root })
    /\ fs \in SUBSET Dirs
    /\ packages = Unbound
    /\ descriptor = Unbound
    /\ calls = 0
    /\ raised = None
    /\ outcome = None
    /\ passed = << >>

\* line 9: the argument packages=find_packages() is evaluated
FindPackages ==
    /\ pc = "start"
    /\ packages' = Bound(find_packages)
    /\ pc' = "args"
    /\ UNCHANGED << run, argv, order, fs, descriptor, calls, raised, outcome, passed >>

\* lines 7-20: all arguments evaluated, setup() is entered
CallSetup ==
    /\ pc = "args"
    /\ descriptor' = Bound(Descriptor(Value(packages)))
    /\ calls' = calls + 1
    /\ passed' = Append(passed, Descriptor(Value(packages)))
    /\ pc' = "in_setup"
    /\ UNCHANGED << run, argv, order, fs, packages, raised, outcome >>

\* setup() is invoked a second time after it returned
SetupReturns_again ==
    /\ pc = "in_setup"
    /\ calls < 2
    /\ calls' = calls + 1
    /\ passed' = Append(passed, Value(descriptor))
    /\ UNCHANGED << pc, run, argv, order, fs, packages, descriptor, raised, outcome >>

\* setup() has run the command of argv and returns; it is the last
\* statement of the script
SetupReturns ==
    /\ pc = "in_setup"
    /\ LET steps == Steps(Value(descriptor).packages)
       IN  Ran(steps, Len(steps))
    /\ pc' = "done"
    /\ outcome' = "ok"
    /\ UNCHANGED << run, argv, packages, descriptor, calls, raised, passed >>

\* the packaging tool raises e inside setup(); what the command wrote until
\* then stays in the tree
ToolRaises(e) ==
    /\ pc = "in_setup"
    /\ LET steps == Steps(Value(descriptor).packages)
       IN  \E n \in StepsBefore(e, steps) : Ran(steps, n)
    /\ raised' = e
    /\ pc' = "raising"
    /\ UNCHANGED << run, argv, packages, descriptor, calls, outcome, passed >>

\* an except clause that retries setup() without the requirements
Propagate_fallback ==
    /\ pc = "raising"
    /\ descriptor' = Bound([ Value(descriptor) EXCEPT !.install_requires = << >> ])
    /\ raised' = None
    /\ pc' = "in_setup"
    /\ UNCHANGED << run, argv, order, fs, packages, calls, outcome, passed >>

\* an except clause that swallows the error
Propagate_swallow ==
    /\ pc = "raising"
    /\ outcome' = "ok"
    /\ pc' = "done"
    /\ UNCHANGED << run, argv, order, fs, packages, descriptor, calls, raised, passed >>

\* the setup() call stands in no try block: the error leaves the script
Propagate ==
    /\ pc = "raising"
    /\ outcome' = raised
    /\ pc' = "failed"
    /\ UNCHANGED << run, argv, order, fs, packages, descriptor, calls, raised, passed >>

\* the packaging step is run again, with the same command
NextRun ==
    /\ pc \in { "done", "failed" }
    /\ run < MaxRuns
    /\ run' = run + 1
    /\ pc' = "start"
    /\ packages' = Unbound
    /\ descriptor' = Unbound
    /\ calls' = 0
    /\ raised' = None
    /\ outcome' = None
    /\ UNCHANGED << argv, order, fs, passed >>

Next ==
    \/ FindPackages
    \/ CallSetup
    \/ SetupReturns
    \/ \E e \in Errors : ToolRaises(e)
    \/ Propagate
    \/ NextRun

Spec == Init /\ [][Next]_vars

(***************************************************************************)
(* Properties.                                                             *)
(***************************************************************************)
Positions == { "start", "args", "in_setup", "raising", "done", "failed" }

TypeOK ==
    /\ pc \in Positions
    /\ run \in 1..MaxRuns
    /\ argv \in Argvs
    /\ Dirs \cup { Root } \subseteq DOMAIN order
    /\ fs \subseteq DOMAIN order
    /\ calls \in Nat
    /\ raised \in Errors \cup { None }
    /\ outcome \in Errors \cup { "ok", None }

\* the directories reachable from the root through package directories: each
\* directory on the path holds an __init__.py and has an importable name
IsInstallable(p) ==
    /\ p \in DOMAIN order \ { Root }
    /\ \A k \in 1..Len(p) : /\ SubSeq(p, 1, k) \in fs
                            /\ Find(p[k], ".") = 0

Installable == { p \in DOMAIN order : IsInstallable(p) }

\* C2 (as stated): running the packaging step twice hands setup() the same
\* descriptor, field for field: every descriptor handed over so far equals
\* every other.
C2_Idempotent ==
    \A i, j \in DOMAIN passed : passed[i] = passed[j]

\* a run has written a package directory where find_packages() finds it:
\* a directory that got its __init__.py from a command and is reachable
\* from the root through package directories
WrittenIntoPackages ==
    \E d \in fs \ Dirs : IsInstallable(d)

\* C2 (amended): name, version, description, author, license and
\* install_requires are the same in every run; packages, and so the whole
\* descriptor, is the same in every run as long as no run, finished or
\* failed, has written a package directory under a package of the project.
C2_IdempotentUnlessWritten ==
    /\ \A i, j \in DOMAIN passed :
          [ passed[i] EXCEPT !.packages = << >> ]
              = [ passed[j] EXCEPT !.packages = << >> ]
    /\ ~WrittenIntoPackages =>
          \A i, j \in DOMAIN passed : passed[i] = passed[j]

\* a second run, after the build_py of the first wrote build/lib with the
\* packages it had found, has handed its descriptor to setup()
C2_Witness ==
    /\ run = 2
    /\ pc = "in_setup"
    /\ argv.command = "build_py"
    /\ ~WrittenIntoPackages
    /\ << "build", "lib", "thermostat", "cli" >> \in fs
    /\ << "build", "lib", "tests" >> \in fs
    /\ Len(passed) = 2
    /\ Len(passed[2].packages) >= 3

AlwaysLeftOut(p) ==
    \/ p = << "ez_setup" >>
    \/ EndsWith(p[Len(p)], "__pycache__")

Stabilizer ==
    [ direct |-> TRUE, name |-> "stabilizer", vcs |-> "git",
      url |-> "https://github.com/quartiq/stabilizer",
      rev |-> "becc1c72", subdirectory |-> "py" ]

MiniconfMqtt ==
    [ direct |-> TRUE, name |-> "miniconf-mqtt", vcs |-> "git",
      url |-> "https://github.com/quartiq/miniconf",
      rev |-> "miniconf-v0.10.1", subdirectory |-> "py/miniconf-mqtt" ]

\* the requirement strings of the setup() call, read as the packaging tool
\* reads them
Requirements ==
    [ i \in DOMAIN install_requires |-> ParseSpecifier(install_requires[i]) ]

\* the requirements are two, stabilizer before miniconf-mqtt, each with a
\* repository URL, a revision pin and a subdirectory path; the pin of
\* stabilizer has the form of a commit hash, that of miniconf-mqtt is a tag
\* name
TwoPinnedRequirements ==
    /\ Len(Requirements) = 2
    /\ Requirements[1] = Stabilizer
    /\ Requirements[2] = MiniconfMqtt
    /\ IsHex(Stabilizer.rev)
    /\ ~IsHex(MiniconfMqtt.rev)
    /\ StartsWith(MiniconfMqtt.rev, "miniconf-v")

\* C5: the dependency list handed to setup() is exactly two specifiers, first
\* stabilizer and then miniconf-mqtt; each names a package with a repository
\* URL, a revision pin and a subdirectory path; the miniconf-mqtt pin is a
\* release tag name (miniconf-v...), not a commit hash, while the stabilizer
\* pin is an abbreviated commit hash.
C5_DependencyList ==
    descriptor # Unbound =>
        /\ Value(descriptor).install_requires = install_requires
        /\ TwoPinnedRequirements

\* setup() holds the descriptor with both requirements
C5_Witness ==
    /\ pc = "in_setup"
    /\ Value(descriptor).install_requires = install_requires
    /\ Len(Requirements) = 2
    /\ Requirements[2].name = "miniconf-mqtt"

\* C6: the descriptor is constructed once per run and never changed after it
\* is handed to setup(): until the run ends every field keeps its value.
C6_NoMutation ==
    [][ /\ calls' <= 1
        /\ (descriptor # Unbound /\ run' = run) =>
              /\ descriptor' = descriptor
              /\ calls' = calls
              /\ passed' = passed ]_vars

\* a run has ended after the tool raised, the descriptor still as constructed
C6_Witness ==
    /\ pc = "failed"
    /\ run = 2
    /\ calls = 1
    /\ Value(descriptor) = Descriptor(Value(packages))
    /\ Value(descriptor) = passed[2]

\* C7: an error raised by the packaging tool ends the run as that error: it
\* is not caught, setup() is not retried, and the descriptor is not altered.
C7_ErrorsPropagate ==
    /\ raised # None =>
          /\ pc \in { "raising", "failed" }
          /\ calls = 1
          /\ Value(descriptor) = passed[run]
          /\ Value(descriptor).install_requires = install_requires
    /\ pc = "failed" => (raised \in Errors /\ outcome = raised)
    /\ pc = "done" => (raised = None /\ outcome = "ok")

\* a run has ended with the file error of build_py --build-lib
\* thermostat/cli, whose last copy had created its __init__.py before it
\* failed: every package found is in the tree a second time
C7_Witness ==
    /\ pc = "failed"
    /\ raised = FileError
    /\ outcome = FileError
    /\ calls = 1
    /\ Len(Value(packages)) = 3
    /\ \A i \in 1..3 :
          << "thermostat", "cli" >> \o Split(Value(packages)[i]) \in fs

\* C8: a run is one sequence of steps: find_packages() has returned before
\* setup() is entered, and setup() is invoked exactly once.
C8_SingleSequence ==
    /\ pc \in Positions
    /\ calls <= 1
    /\ pc = "start" => (packages = Unbound /\ calls = 0 /\ descriptor = Unbound)
    /\ pc = "args" => (packages # Unbound /\ calls = 0 /\ descriptor = Unbound)
    /\ pc \in { "in_setup", "raising", "done", "failed" } =>
          /\ calls = 1
          /\ packages # Unbound
          /\ descriptor # Unbound
          /\ Value(descriptor).packages = Value(packages)
    /\ Len(passed) = (run - 1) + calls

\* a run has completed: packages were found, then setup() was called once
C8_Witness ==
    /\ pc = "done"
    /\ calls = 1
    /\ Len(Value(packages)) >= 1
    /\ Value(descriptor).packages = Value(packages)

\* every requirement is a direct reference with all its parts, and writing
\* the parts out again gives the requirement string back
DirectReferences ==
    \A i \in DOMAIN install_requires :
        LET q == Requirements[i]
        IN  /\ q.direct
            /\ q.name # ""
            /\ q.vcs = "git"
            /\ q.url # ""
            /\ q.rev # ""
            /\ q.subdirectory # ""
            /\ FormatSpecifier(q) = install_requires[i]

\* C9: every specifier handed to setup() is a direct reference of the form
\* name@git+URL@revision#subdirectory=path; none is left to the package index.
C9_AllDirectReferences ==
    descriptor # Unbound =>
        /\ Value(descriptor).install_requires = install_requires
        /\ DirectReferences

\* both specifiers have reached setup() and both are direct references
C9_Witness ==
    /\ descriptor # Unbound
    /\ Value(descriptor).install_requires = install_requires
    /\ Len(Requirements) = 2
    /\ \A i \in 1..2 : Requirements[i].direct

====
